---- MODULE Spec2Model ----
(***************************************************************************)
(* Scheduling and pooling engine of femini-playwright:                     *)
(*   CredentialManager (credential_manager.py), BrowserManager             *)
(*   (browser_manager.py) and QueueManager (queue_manager.py).             *)
(*                                                                         *)
(* The program runs on one asyncio event loop: a coroutine runs alone      *)
(* until it suspends at an await that cannot complete at once.  cur is     *)
(* the coroutine that holds the loop ("none" when every coroutine is       *)
(* suspended); only cur may take a step, and a step that reaches a real    *)
(* suspension point gives the loop back (cur' = "none").  An await on an   *)
(* uncontended asyncio.Lock, on a Semaphore with a free slot or on a       *)
(* non-empty Queue returns without suspending.                             *)
(***************************************************************************)
EXTENDS Integers, Sequences, FiniteSets, TLC

\* ---- bounds of the model ------------------------------------------------
\* Tasks submitted in a run of Spec, and in a run of the three-task scenarios.
NumTasks == 2
ScenarioTasks == 3
\* The round-robin index is followed up to this value in the allocator's runs.
MaxRoundRobinIndex == 4
\* The event loop's clock (loop.time() is a monotonic clock, whose reading at
\* construction is not zero) starts at ClockStart in the purge's runs and is
\* followed up to MaxTime.
ClockStart == 2
MaxTime == 4

\* ---- fixed universes ----------------------------------------------------
Workers == {"w0", "w1"}
\* A configuration: the registry, CREDENTIAL_MODE, MAX_CONCURRENT_PER_CREDENTIAL,
\* DEFAULT_CREDENTIAL_INDEX and MAX_REQUESTS_PER_CONTEXT.
Config(creds, m, conc, idx, reqs) ==
    [credentials |-> creds, mode |-> m, max_concurrent_per_credential |-> conc,
     default_credential_index |-> idx, max_requests_per_context |-> reqs]

\* The configurations Spec starts from.
Configs ==
    { Config(<<"A">>, "random", 1, 0, 1),
      Config(<<"A", "B">>, "random", 1, 0, 2),
      Config(<<"A", "B">>, "default", 2, 0, 1) }

\* The configurations of the three-task scenarios.
ScenarioConfigs ==
    { Config(<<"A">>, "random", 1, 0, 2),
      Config(<<"A", "B">>, "random", 2, 0, 2) }

\* The configurations of the recycling scenarios: a limit of one request per
\* context on two credentials, and a capacity of two on one credential.
RecycleConfigs ==
    { Config(<<"A", "B">>, "random", 1, 0, 1),
      Config(<<"A">>, "random", 2, 0, 2) }

AllKeys == {"A", "B"}
Modes == {"random", "round_robin", "least_busy", "default"}
None == "None"
\* None where the other values are clock readings or durations.
NoTime == -1

\* The configurations of the allocator's runs: one or two credentials, every
\* mode, capacities 1 and 2, default indices in and out of range.
AllocConfigs ==
    { Config(c, m, conc, idx, 1) :
        c \in {<<"A">>, <<"A", "B">>}, m \in Modes, conc \in 1..2, idx \in 0..2 }

\* The arguments of get_available_credential: a mode or no override, a key of
\* the registry, a key outside it ("Z") or no pin.
ModeOverrides == Modes \cup {None}
PinKeys == {None, "A", "B", "Z"}

\* Request fields read by the scheduler (queue_manager.py Request):
\* account_id pins a credential, credential_mode overrides the mode.
Requests ==
    { [account_id |-> None, credential_mode |-> None],
      [account_id |-> "A", credential_mode |-> None] }

\* The worker's `request` local outside an iteration.
NoRequest == [account_id |-> None, credential_mode |-> None]

\* Outcomes of one GeminiClient.process_request call as the worker sees it.
DriverOutcomes == {"ok", "fail", "raise"}

\* The max_age arguments of clear_completed_tasks, in the clock's unit.
MaxAges == {1, 2}

\* The requests of callers that also pin a key outside the registry.
CallerRequests == Requests \cup {[account_id |-> "Z", credential_mode |-> None]}

VARIABLES
    \* configuration (Settings, CredentialManager.__init__)
    credentials, mode, max_concurrent_per_credential, default_credential_index,
    max_requests_per_context,
    \* CredentialManager
    active_tasks, _round_robin_index,
    \* BrowserManager
    contexts, ctx_order, semaphores, idle,
    prune_pc, to_prune, prune_closing,
    \* browser contexts launched and not yet closed, workers holding each
    \* semaphore (observers of the pool)
    open_contexts, sem_holders,
    \* QueueManager
    queue, unfinished_tasks, running, task_results, clients,
    _client_lock, credential_usage, stats,
    \* the worker coroutines
    pc, w_task, w_request, w_cred, w_ctx, w_old,
    \* stop_workers and the event loop
    stop_pc, stop_left, cur,
    \* the event loop's clock (loop.time()), the worker's start_time local, and
    \* the clock reading at which each task's result was stored (an observer)
    now, w_start, completed_at

cfgVars == <<credentials, mode, max_concurrent_per_credential, default_credential_index,
            max_requests_per_context>>
allocVars == <<active_tasks, _round_robin_index>>
ctxVars == <<contexts, ctx_order, open_contexts>>
semVars == <<semaphores, sem_holders>>
pruneVars == <<prune_pc, to_prune, prune_closing>>
queueVars == <<queue, unfinished_tasks>>
clientVars == <<clients, _client_lock, credential_usage>>
workerVars == <<pc, w_task, w_request, w_start, w_cred, w_ctx, w_old>>
stopVars == <<stop_pc, stop_left>>
vars == <<cfgVars, allocVars, ctxVars, semVars, idle, pruneVars,
          queueVars, running, task_results, clientVars, stats, workerVars,
          stopVars, cur, now, completed_at>>

\* ---- helpers -------------------------------------------------------------
Keys == {credentials[i] : i \in DOMAIN credentials}

\* ---- CredentialManager.get_available_credential ---------------------------
\* The capacity test off by one: a credential at its cap still counts as free.
has_capacity_OffByOne(k) == active_tasks[k] <= max_concurrent_per_credential

has_capacity(k) == active_tasks[k] < max_concurrent_per_credential

\* A filter that keeps every credential.
available_Unfiltered == credentials

available == SelectSeq(credentials, has_capacity)

AvailableKeys == {available[i] : i \in DOMAIN available}

\* A selection of the busiest candidate instead of the least busy one.
RECURSIVE FirstMin_Busiest(_, _)
FirstMin_Busiest(s, best) ==
    IF s = <<>> THEN best
    ELSE FirstMin_Busiest(Tail(s),
                  IF active_tasks[Head(s)] > active_tasks[best] THEN Head(s) ELSE best)

\* min(available, key=active_tasks): the first minimum in registry order.
RECURSIVE FirstMin(_, _)
FirstMin(s, best) ==
    IF s = <<>> THEN best
    ELSE FirstMin(Tail(s),
                  IF active_tasks[Head(s)] < active_tasks[best] THEN Head(s) ELSE best)

\* A scan that returns the first available credential and leaves the index.
RoundRobinScan_NoAdvance(idx, left) == [cred |-> available[1], rr |-> idx]

\* The round-robin scan: at most len(credentials) candidates from the index,
\* the index advanced once per candidate looked at.
RECURSIVE RoundRobinScan(_, _)
RoundRobinScan(idx, left) ==
    IF left = 0 THEN [cred |-> available[1], rr |-> idx]
    ELSE LET candidate == credentials[(idx % Len(credentials)) + 1]
         IN  IF candidate \in AvailableKeys
             THEN [cred |-> candidate, rr |-> idx + 1]
             ELSE RoundRobinScan(idx + 1, left - 1)

\* A default that is always the first credential.
DefaultTarget_First == credentials[1]

\* credentials[default_index], credentials[0] on IndexError.
DefaultTarget ==
    IF default_credential_index < Len(credentials)
    THEN credentials[default_credential_index + 1]
    ELSE credentials[1]

\* A pinned request that falls back to any free credential when its own is busy.
PinnedCredential_Substitutes(specific_key) ==
    IF specific_key \in Keys /\ has_capacity(specific_key)
    THEN {[cred |-> specific_key, rr |-> _round_robin_index]}
    ELSE {[cred |-> k, rr |-> _round_robin_index] : k \in AvailableKeys \cup {None}}

\* A pinned lookup that also advances the round-robin index.
PinnedCredential_Advances(specific_key) ==
    IF specific_key \in Keys /\ has_capacity(specific_key)
    THEN {[cred |-> specific_key, rr |-> _round_robin_index + 1]}
    ELSE {[cred |-> None, rr |-> _round_robin_index + 1]}

\* `if specific_key:` an unknown key and a key at capacity both return None.
PinnedCredential(specific_key) ==
    IF specific_key \notin Keys
    THEN {[cred |-> None, rr |-> _round_robin_index]}
    ELSE IF has_capacity(specific_key)
         THEN {[cred |-> specific_key, rr |-> _round_robin_index]}
         ELSE {[cred |-> None, rr |-> _round_robin_index]}

\* The set of possible returns [cred, rr]: cred is a key or None, rr the
\* round-robin index afterwards.
get_available_credential(mode_override, specific_key) ==
    IF specific_key # None
    THEN PinnedCredential(specific_key)
    ELSE LET m == IF mode_override # None THEN mode_override ELSE mode
         IN  IF available = <<>>
             THEN {[cred |-> None, rr |-> _round_robin_index]}
             ELSE CASE m = "random" ->
                         {[cred |-> k, rr |-> _round_robin_index] : k \in AvailableKeys}
                    [] m = "least_busy" ->
                         {[cred |-> FirstMin(Tail(available), Head(available)),
                           rr |-> _round_robin_index]}
                    [] m = "round_robin" ->
                         {RoundRobinScan(_round_robin_index, Len(credentials))}
                    [] OTHER ->
                         IF DefaultTarget \in AvailableKeys
                         THEN {[cred |-> DefaultTarget, rr |-> _round_robin_index]}
                         ELSE {[cred |-> None, rr |-> _round_robin_index]}

\* ---- TaskResult values -----------------------------------------------------
\* The placeholder enqueue_request stores.
Placeholder ==
    [success |-> FALSE, error |-> None, credential_key |-> None,
     processing_time |-> NoTime]

\* A result a worker stores: processing_time is loop.time() - start_time, the
\* time the task took.
TaskResult(success, error, key, processing_time) ==
    [success |-> success, error |-> error, credential_key |-> key,
     processing_time |-> processing_time]

\* ---- Init ---------------------------------------------------------------
\* The state after BrowserManager.initialize() and QueueManager.start_workers():
\* semaphores exist with one slot each, no context exists, the workers are
\* created and have not run yet.
Configured(c) ==
    /\ credentials = c.credentials
    /\ mode = c.mode
    /\ max_concurrent_per_credential = c.max_concurrent_per_credential
    /\ default_credential_index = c.default_credential_index
    /\ max_requests_per_context = c.max_requests_per_context

Started ==
    /\ active_tasks = [k \in AllKeys |-> 0]
    /\ _round_robin_index = 0
    /\ contexts = [k \in AllKeys |-> 0]
    /\ ctx_order = <<>>
    /\ semaphores = [k \in AllKeys |-> 1]
    /\ idle = [k \in AllKeys |-> FALSE]
    /\ prune_pc = "sleep"
    /\ to_prune = <<>>
    /\ prune_closing = <<>>
    /\ open_contexts = {}
    /\ sem_holders = [k \in AllKeys |-> {}]
    /\ queue = <<>>
    /\ unfinished_tasks = 0
    /\ running = TRUE
    /\ task_results = <<>>
    /\ clients = [k \in AllKeys |-> 0]
    /\ _client_lock = None
    /\ credential_usage = [k \in AllKeys |-> 0]
    /\ stats = [total_enqueued |-> 0, total_processed |-> 0, total_failed |-> 0]
    /\ pc = [w \in Workers |-> "created"]
    /\ w_task = [w \in Workers |-> 0]
    /\ w_request = [w \in Workers |-> NoRequest]
    /\ w_cred = [w \in Workers |-> None]
    /\ w_ctx = [w \in Workers |-> 0]
    /\ w_old = [w \in Workers |-> 0]
    /\ stop_left = <<>>
    /\ stop_pc = "running"
    /\ cur = "none"
    /\ w_start = [w \in Workers |-> 0]
    /\ completed_at = <<>>

Init == (\E c \in Configs : Configured(c)) /\ Started /\ now = 0

ScenarioInit == (\E c \in ScenarioConfigs : Configured(c)) /\ Started /\ now = 0

\* ---- QueueManager.enqueue_request ---------------------------------------------
\* Task ids are the caller's (request.task_id).  A caller that keeps them
\* unique numbers its tasks 1, 2, ...; one that does not may use an id again.
FreshId(t) == t = stats.total_enqueued + 1

UsedOrFreshId(t) == t <= Cardinality(DOMAIN task_results) + 1

\* put (never suspends on the unbounded queue), the placeholder result, the stat.
enqueue_request(t, req) ==
    /\ cur = "none"
    /\ queue' = Append(queue, <<t, req>>)
    /\ unfinished_tasks' = unfinished_tasks + 1
    /\ task_results' = (t :> Placeholder) @@ task_results
    /\ completed_at' = (t :> NoTime) @@ completed_at
    /\ stats' = [stats EXCEPT !.total_enqueued = @ + 1]
    /\ UNCHANGED <<cfgVars, now, allocVars, ctxVars, semVars, idle, pruneVars,
                   running, clientVars, workerVars, stopVars, cur>>

\* ---- pieces of the worker's handlers ------------------------------------------
\* An acquire that never waits.
SemFree_NeverWaits(k) == k = k

\* asyncio.Semaphore.acquire returns at once when a slot is free.
SemFree(k) == semaphores[k] > 0

\* An `except Exception` that counts the failure and stores no result.
StoreFailed_NoResult(w, err) ==
    /\ task_results' = task_results
    /\ completed_at' = completed_at
    /\ stats' = [stats EXCEPT !.total_failed = @ + 1]

\* `except Exception` of _worker: the failed result and the stat.
StoreFailed(w, err) ==
    /\ task_results' = [task_results EXCEPT ![w_task[w]] =
                            TaskResult(FALSE, err, None, now - w_start[w])]
    /\ completed_at' = [completed_at EXCEPT ![w_task[w]] = now]
    /\ stats' = [stats EXCEPT !.total_failed = @ + 1]

\* A release_context that releases the semaphore twice.
release_context_Twice(w, k) ==
    /\ idle' = [idle EXCEPT ![k] = FALSE]
    /\ semaphores' = [semaphores EXCEPT ![k] = @ + 2]
    /\ sem_holders' = [sem_holders EXCEPT ![k] = @ \ {w}]

\* BrowserManager.release_context.
release_context(w, k) ==
    /\ idle' = [idle EXCEPT ![k] = FALSE]
    /\ semaphores' = [semaphores EXCEPT ![k] = @ + 1]
    /\ sem_holders' = [sem_holders EXCEPT ![k] = @ \ {w}]

\* A mark_free that forgets the decrement.
mark_free_NoDecrement(k) == [active_tasks EXCEPT ![k] = @]

\* CredentialManager.mark_free, as the count afterwards.
mark_free(k) ==
    [active_tasks EXCEPT ![k] = IF @ > 0 THEN @ - 1 ELSE @]

\* A mark_busy that does not count the task.
mark_busy_NoCount(k) == [active_tasks EXCEPT ![k] = @]

\* CredentialManager.mark_busy, as the count afterwards.
mark_busy(k) ==
    [active_tasks EXCEPT ![k] = @ + 1]

\* An iteration whose end also ends the worker loop.
EndIteration_Exits(w) ==
    /\ unfinished_tasks' = unfinished_tasks - 1
    /\ stop_pc' = IF stop_pc = "joining" /\ unfinished_tasks = 1 THEN "joined" ELSE stop_pc
    /\ pc' = [pc EXCEPT ![w] = "stopped"]
    /\ w_task' = [w_task EXCEPT ![w] = 0]
    /\ w_request' = [w_request EXCEPT ![w] = NoRequest]
    /\ w_start' = [w_start EXCEPT ![w] = 0]
    /\ w_cred' = [w_cred EXCEPT ![w] = None]
    /\ w_ctx' = [w_ctx EXCEPT ![w] = 0]
    /\ w_old' = [w_old EXCEPT ![w] = 0]
    /\ stop_left' = stop_left
    /\ cur' = "none"

\* `finally: self.queue.task_done()` and back to `while self.running`; a join()
\* waiting in stop_workers is woken when the count reaches zero.
EndIteration(w) ==
    /\ unfinished_tasks' = unfinished_tasks - 1
    /\ stop_pc' = IF stop_pc = "joining" /\ unfinished_tasks = 1 THEN "joined" ELSE stop_pc
    /\ pc' = [pc EXCEPT ![w] = "start"]
    /\ w_task' = [w_task EXCEPT ![w] = 0]
    /\ w_request' = [w_request EXCEPT ![w] = NoRequest]
    /\ w_start' = [w_start EXCEPT ![w] = 0]
    /\ w_cred' = [w_cred EXCEPT ![w] = None]
    /\ w_ctx' = [w_ctx EXCEPT ![w] = 0]
    /\ w_old' = [w_old EXCEPT ![w] = 0]
    /\ stop_left' = stop_left
    /\ cur' = w

\* An exception that leaves _process_request or get_context's caller while the
\* worker holds the semaphore: both finally blocks, then `except Exception`.
FailHolding(w, err) ==
    /\ release_context(w, w_cred[w])
    /\ active_tasks' = mark_free(w_cred[w])
    /\ StoreFailed(w, err)
    /\ EndIteration(w)

\* ---- QueueManager._worker ---------------------------------------------------
\* `while self.running:` and queue.get(): leaves the loop, takes the head of a
\* non-empty queue, or suspends on an empty one.
LoopTop(w) ==
    /\ \/ pc[w] = "created" /\ cur = "none"
       \/ pc[w] = "start" /\ cur = w
    /\ IF ~running
       THEN /\ pc' = [pc EXCEPT ![w] = "stopped"]
            /\ cur' = "none"
            /\ UNCHANGED <<queue, w_task, w_request, w_start>>
       ELSE IF queue = <<>>
            THEN /\ pc' = [pc EXCEPT ![w] = "get"]
                 /\ cur' = "none"
                 /\ UNCHANGED <<queue, w_task, w_request, w_start>>
            ELSE /\ pc' = [pc EXCEPT ![w] = "resolve"]
                 /\ w_task' = [w_task EXCEPT ![w] = Head(queue)[1]]
                 /\ w_request' = [w_request EXCEPT ![w] = Head(queue)[2]]
                 /\ w_start' = [w_start EXCEPT ![w] = now]
                 /\ queue' = Tail(queue)
                 /\ cur' = w
    /\ UNCHANGED <<cfgVars, now, allocVars, ctxVars, semVars, idle, pruneVars,
                   unfinished_tasks, running, task_results, completed_at, clientVars,
                   stats, w_cred, w_ctx, w_old, stopVars>>

\* The getter suspended in queue.get() resumes once an item is there.
QueueGetResume(w) ==
    /\ cur = "none"
    /\ pc[w] = "get"
    /\ queue # <<>>
    /\ pc' = [pc EXCEPT ![w] = "resolve"]
    /\ w_task' = [w_task EXCEPT ![w] = Head(queue)[1]]
    /\ w_request' = [w_request EXCEPT ![w] = Head(queue)[2]]
    /\ w_start' = [w_start EXCEPT ![w] = now]
    /\ queue' = Tail(queue)
    /\ cur' = w
    /\ UNCHANGED <<cfgVars, now, allocVars, ctxVars, semVars, idle, pruneVars,
                   unfinished_tasks, running, task_results, completed_at, clientVars,
                   stats, w_cred, w_ctx, w_old, stopVars>>

\* The inner `while self.running:` with not running: credential stays None,
\* `continue`, task_done.
ResolveStopped(w) ==
    /\ cur = w
    /\ pc[w] = "resolve"
    /\ ~running
    /\ EndIteration(w)
    /\ UNCHANGED <<cfgVars, now, allocVars, ctxVars, semVars, idle, pruneVars,
                   queue, running, task_results, completed_at, clientVars, stats>>

\* get_available_credential returned a credential: mark_busy follows with no
\* suspension in between (the allocator lock is never held across an await).
ResolveAdmit(w) ==
    /\ cur = w
    /\ pc[w] = "resolve"
    /\ running
    /\ \E r \in get_available_credential(w_request[w].credential_mode,
                                         w_request[w].account_id) :
          /\ r.cred # None
          /\ _round_robin_index' = r.rr
          /\ active_tasks' = mark_busy(r.cred)
          /\ w_cred' = [w_cred EXCEPT ![w] = r.cred]
    /\ pc' = [pc EXCEPT ![w] = "get_context"]
    /\ UNCHANGED <<cfgVars, now, ctxVars, semVars, idle, pruneVars, queueVars,
                   running, task_results, completed_at, clientVars, stats, w_task, w_request, w_start, w_ctx, w_old, stopVars, cur>>

\* get_available_credential returned None: cred_mgr.wait_for_available() does
\* not exist, the AttributeError is caught by `except Exception`.
ResolveSaturated(w) ==
    /\ cur = w
    /\ pc[w] = "resolve"
    /\ running
    /\ \E r \in get_available_credential(w_request[w].credential_mode,
                                         w_request[w].account_id) :
          /\ r.cred = None
          /\ _round_robin_index' = r.rr
    /\ StoreFailed(w, "AttributeError")
    /\ EndIteration(w)
    /\ UNCHANGED <<cfgVars, now, active_tasks, ctxVars, semVars, idle, pruneVars,
                   queue, running, clientVars>>

\* A get_context that launches a context whether or not one is stored.
AfterAcquire_AlwaysCreates(w, k) ==
    /\ semaphores' = [semaphores EXCEPT ![k] = @ - 1]
    /\ sem_holders' = [sem_holders EXCEPT ![k] = @ \cup {w}]
    /\ pc' = [pc EXCEPT ![w] = "creating"]
    /\ cur' = "none"
    /\ UNCHANGED <<w_ctx, idle>>

\* get_context once the semaphore is acquired: lazy creation suspends in
\* launch_persistent_context, an existing context is returned at once and the
\* worker enters _process_request.
AfterAcquire(w, k) ==
    /\ semaphores' = [semaphores EXCEPT ![k] = @ - 1]
    /\ sem_holders' = [sem_holders EXCEPT ![k] = @ \cup {w}]
    /\ IF contexts[k] = 0
       THEN /\ pc' = [pc EXCEPT ![w] = "creating"]
            /\ cur' = "none"
            /\ UNCHANGED <<w_ctx, idle>>
       ELSE /\ pc' = [pc EXCEPT ![w] = "process"]
            /\ w_ctx' = [w_ctx EXCEPT ![w] = contexts[k]]
            /\ idle' = [idle EXCEPT ![k] = FALSE]
            /\ cur' = w

get_context(w) ==
    /\ cur = w
    /\ pc[w] = "get_context"
    /\ IF SemFree(w_cred[w])
       THEN AfterAcquire(w, w_cred[w])
       ELSE /\ pc' = [pc EXCEPT ![w] = "sem_wait"]
            /\ cur' = "none"
            /\ UNCHANGED <<semVars, w_ctx, idle>>
    /\ UNCHANGED <<cfgVars, now, allocVars, ctxVars, pruneVars, queueVars, running,
                   task_results, completed_at, clientVars, stats, w_task, w_request, w_start, w_cred, w_old, stopVars>>

\* ---- QueueManager._process_request / _get_or_create_client ---------------------
\* A recreate_context that goes to _create_context and leaves the stored context.
RecreateBegin_NoClose(w, k) ==
    /\ w_old' = w_old
    /\ pc' = [pc EXCEPT ![w] = "rc_creating"]

\* recreate_context from its first line: close the stored context if there is
\* one (suspends in close()), else go on to _create_context (suspends in launch).
RecreateBegin(w, k) ==
    IF contexts[k] # 0
    THEN /\ w_old' = [w_old EXCEPT ![w] = contexts[k]]
         /\ pc' = [pc EXCEPT ![w] = "rc_closing"]
    ELSE /\ w_old' = w_old
         /\ pc' = [pc EXCEPT ![w] = "rc_creating"]

\* The recycling block once _client_lock is held: clean the client up if there
\* is one (suspends in cleanup()), then recreate_context.
RecycleLocked(w, k) ==
    /\ _client_lock' = w
    /\ cur' = "none"
    /\ IF clients[k] # 0
       THEN /\ pc' = [pc EXCEPT ![w] = "rc_cleaning"]
            /\ w_old' = w_old
       ELSE RecreateBegin(w, k)

\* _get_or_create_client once _client_lock is held, for the context ctx the
\* caller passes: a client bound to another context is cleaned up (suspends), a
\* missing client is built and initialized (suspends), a matching client is
\* returned and client.process_request is awaited.
GetClientLocked(w, k, ctx) ==
    /\ cur' = "none"
    /\ IF clients[k] # 0 /\ clients[k] # ctx
       THEN /\ pc' = [pc EXCEPT ![w] = "gc_cleaning"]
            /\ _client_lock' = w
       ELSE IF clients[k] = 0
            THEN /\ pc' = [pc EXCEPT ![w] = "gc_init"]
                 /\ _client_lock' = w
            ELSE /\ pc' = [pc EXCEPT ![w] = "driver"]
                 /\ _client_lock' = None

\* Context objects are told apart by identity only: a new context of k is named
\* by the least number that names no context of k still referenced anywhere.
Referenced(k) ==
    {contexts[k], clients[k]}
      \cup {w_ctx[w] : w \in {x \in Workers : w_cred[x] = k}}
      \cup {w_old[w] : w \in {x \in Workers : w_cred[x] = k}}
      \cup {c[2] : c \in {x \in open_contexts : x[1] = k}}
      \cup (IF prune_closing # <<>> /\ prune_closing[1] = k THEN {prune_closing[2]} ELSE {})

NewContext(k) == CHOOSE n \in 1..(Cardinality(Referenced(k)) + 1) :
                     /\ n \notin Referenced(k)
                     /\ \A m \in 1..(n - 1) : m \in Referenced(k)

\* _create_context: the launched context is stored and stamped.
StoreContext(k) ==
    /\ contexts' = [contexts EXCEPT ![k] = NewContext(k)]
    /\ open_contexts' = open_contexts \cup {<<k, NewContext(k)>>}
    /\ ctx_order' = IF contexts[k] = 0 THEN Append(ctx_order, k) ELSE ctx_order

\* A waiter of Semaphore.acquire resumes once a slot is free: the worker's
\* get_context ("sem_wait"), or the get_context called from the recycling block
\* ("rc_sem_wait"), which then resets the usage count and leaves the block.
SemaphoreResume(w) ==
    /\ cur = "none"
    /\ pc[w] \in {"sem_wait", "rc_sem_wait"}
    /\ SemFree(w_cred[w])
    /\ IF pc[w] = "sem_wait"
       THEN /\ AfterAcquire(w, w_cred[w])
            /\ UNCHANGED <<credential_usage, _client_lock>>
       ELSE /\ semaphores' = [semaphores EXCEPT ![w_cred[w]] = @ - 1]
            /\ sem_holders' = sem_holders
            /\ IF contexts[w_cred[w]] = 0
               THEN /\ pc' = [pc EXCEPT ![w] = "rc_get_creating"]
                    /\ cur' = "none"
                    /\ UNCHANGED <<w_ctx, credential_usage, _client_lock, idle>>
               ELSE /\ w_ctx' = [w_ctx EXCEPT ![w] = contexts[w_cred[w]]]
                    /\ idle' = [idle EXCEPT ![w_cred[w]] = FALSE]
                    /\ credential_usage' = [credential_usage EXCEPT ![w_cred[w]] = 0]
                    /\ GetClientLocked(w, w_cred[w], contexts[w_cred[w]])
    /\ UNCHANGED <<cfgVars, now, allocVars, ctxVars, pruneVars, queueVars, running,
                   task_results, completed_at, clients, stats, w_task, w_request, w_start, w_cred, w_old, stopVars>>

\* launch_persistent_context returned inside get_context: the worker enters
\* _process_request; the get_context of the recycling block goes on there.
CreateContextDone(w) ==
    /\ cur = "none"
    /\ pc[w] \in {"creating", "rc_get_creating"}
    /\ StoreContext(w_cred[w])
    /\ w_ctx' = [w_ctx EXCEPT ![w] = NewContext(w_cred[w])]
    /\ idle' = [idle EXCEPT ![w_cred[w]] = FALSE]
    /\ IF pc[w] = "creating"
       THEN /\ pc' = [pc EXCEPT ![w] = "process"]
            /\ cur' = w
            /\ UNCHANGED <<credential_usage, _client_lock>>
       ELSE /\ credential_usage' = [credential_usage EXCEPT ![w_cred[w]] = 0]
            /\ GetClientLocked(w, w_cred[w], NewContext(w_cred[w]))
    /\ UNCHANGED <<cfgVars, now, allocVars, semVars, pruneVars, queueVars, running,
                   task_results, completed_at, clients, stats, w_task, w_request, w_start, w_cred, w_old, stopVars>>

\* launch_persistent_context raised inside get_context: the semaphore is
\* released there, mark_free runs in the worker's finally, the task fails.
\* From the recycling block the exception also passes release_context.
CreateContextFailed(w) ==
    /\ cur = "none"
    /\ pc[w] \in {"creating", "rc_get_creating"}
    /\ IF pc[w] = "creating"
       THEN /\ semaphores' = [semaphores EXCEPT ![w_cred[w]] = @ + 1]
            /\ UNCHANGED <<idle, _client_lock>>
       ELSE /\ semaphores' = [semaphores EXCEPT ![w_cred[w]] = @ + 2]
            /\ idle' = [idle EXCEPT ![w_cred[w]] = FALSE]
            /\ _client_lock' = None
    /\ sem_holders' = [sem_holders EXCEPT ![w_cred[w]] = @ \ {w}]
    /\ active_tasks' = mark_free(w_cred[w])
    /\ StoreFailed(w, "create failed")
    /\ EndIteration(w)
    /\ UNCHANGED <<cfgVars, now, _round_robin_index, ctxVars, pruneVars, queue,
                   running, clients, credential_usage>>

\* _process_request up to its first suspension: the usage count, the recycling
\* test, and the acquisition of _client_lock by either branch.
process_request_enter(w) ==
    /\ cur = w
    /\ pc[w] = "process"
    /\ LET k == w_cred[w]
           current_usage == credential_usage[k] + 1
       IN  /\ credential_usage' = [credential_usage EXCEPT ![k] = current_usage]
           /\ IF current_usage > max_requests_per_context
              THEN IF _client_lock = None
                   THEN RecycleLocked(w, k)
                   ELSE /\ pc' = [pc EXCEPT ![w] = "rc_lock_wait"]
                        /\ cur' = "none"
                        /\ UNCHANGED <<_client_lock, w_old>>
              ELSE IF _client_lock = None
                   THEN GetClientLocked(w, k, w_ctx[w]) /\ w_old' = w_old
                   ELSE /\ pc' = [pc EXCEPT ![w] = "gc_lock_wait"]
                        /\ cur' = "none"
                        /\ UNCHANGED <<_client_lock, w_old>>
    /\ UNCHANGED <<cfgVars, now, allocVars, ctxVars, semVars, idle, pruneVars,
                   queueVars, running, task_results, completed_at, clients, stats, w_task, w_request, w_start, w_cred,
                   w_ctx, stopVars>>

\* A waiter of _client_lock resumes once the lock is free.
ClientLockResume(w) ==
    /\ cur = "none"
    /\ pc[w] \in {"rc_lock_wait", "gc_lock_wait"}
    /\ _client_lock = None
    /\ IF pc[w] = "rc_lock_wait"
       THEN RecycleLocked(w, w_cred[w])
       ELSE GetClientLocked(w, w_cred[w], w_ctx[w]) /\ w_old' = w_old
    /\ UNCHANGED <<cfgVars, now, allocVars, ctxVars, semVars, idle, pruneVars,
                   queueVars, running, task_results, completed_at, clients, credential_usage, stats,
                   w_task, w_request, w_start, w_cred, w_ctx, stopVars>>

\* Recycling: client.cleanup() finished.  When it returned the client is
\* deleted; when it raised the `del` is skipped and the warning logged.
RecycleCleanupDone(w, raised) ==
    /\ cur = "none"
    /\ pc[w] = "rc_cleaning"
    /\ clients' = IF raised THEN clients ELSE [clients EXCEPT ![w_cred[w]] = 0]
    /\ RecreateBegin(w, w_cred[w])
    /\ UNCHANGED <<cfgVars, now, allocVars, ctxVars, semVars, idle, pruneVars,
                   queueVars, running, task_results, completed_at, _client_lock, credential_usage,
                   stats, w_task, w_request, w_start, w_cred, w_ctx, stopVars, cur>>

\* The dict without key k.
RemoveKey(order, k) == SelectSeq(order, LAMBDA x : x # k)

\* recreate_context: old_context.close() finished (an exception is swallowed),
\* then `del self.contexts[key]`.  With the key still there _create_context
\* follows and suspends in launch; with the key gone meanwhile (the prune loop
\* popped it) `del` raises KeyError, which leaves _process_request.
RecreateCloseDone(w) ==
    /\ cur = "none"
    /\ pc[w] = "rc_closing"
    /\ open_contexts' = open_contexts \ {<<w_cred[w], w_old[w]>>}
    /\ IF contexts[w_cred[w]] # 0
       THEN /\ contexts' = [contexts EXCEPT ![w_cred[w]] = 0]
            /\ ctx_order' = RemoveKey(ctx_order, w_cred[w])
            /\ idle' = [idle EXCEPT ![w_cred[w]] = FALSE]
            /\ pc' = [pc EXCEPT ![w] = "rc_creating"]
            /\ UNCHANGED <<allocVars, semVars, queueVars, task_results, completed_at, _client_lock,
                           stats, w_task, w_request, w_start, w_cred, w_ctx, w_old, stopVars, cur>>
       ELSE /\ _client_lock' = None
            /\ FailHolding(w, "KeyError")
            /\ UNCHANGED <<_round_robin_index, contexts, ctx_order, queue>>
    /\ UNCHANGED <<cfgVars, now, pruneVars, running, clients, credential_usage>>

\* recreate_context: launch returned, the new context is stored; then
\* get_context(credential.key) from inside _process_request acquires the
\* semaphore again.  With a free slot it goes on (usage reset, lock released,
\* _get_or_create_client with the new context); without one it suspends.
RecreateCreateDone(w) ==
    /\ cur = "none"
    /\ pc[w] = "rc_creating"
    /\ LET k == w_cred[w]
       IN  /\ StoreContext(k)
           /\ idle' = [idle EXCEPT ![k] = FALSE]
           /\ IF SemFree(k)
              THEN /\ semaphores' = [semaphores EXCEPT ![k] = @ - 1]
                   /\ sem_holders' = sem_holders
                   /\ w_ctx' = [w_ctx EXCEPT ![w] = NewContext(k)]
                   /\ credential_usage' = [credential_usage EXCEPT ![k] = 0]
                   /\ GetClientLocked(w, k, NewContext(k))
              ELSE /\ pc' = [pc EXCEPT ![w] = "rc_sem_wait"]
                   /\ cur' = "none"
                   /\ UNCHANGED <<semVars, w_ctx, credential_usage, _client_lock>>
    /\ UNCHANGED <<cfgVars, now, allocVars, pruneVars, queueVars, running, task_results, completed_at,
                   clients, stats, w_task, w_request, w_start, w_cred, w_old, stopVars>>

\* recreate_context: launch raised; the exception leaves _process_request.
RecreateCreateFailed(w) ==
    /\ cur = "none"
    /\ pc[w] = "rc_creating"
    /\ _client_lock' = None
    /\ FailHolding(w, "create failed")
    /\ UNCHANGED <<cfgVars, now, _round_robin_index, ctxVars, pruneVars, queue,
                   running, clients, credential_usage>>

\* _get_or_create_client: cleanup() of the stale client finished (an exception
\* is swallowed), the client is deleted, the new one suspends in initialize().
GetClientCleanupDone(w) ==
    /\ cur = "none"
    /\ pc[w] = "gc_cleaning"
    /\ clients' = [clients EXCEPT ![w_cred[w]] = 0]
    /\ pc' = [pc EXCEPT ![w] = "gc_init"]
    /\ UNCHANGED <<cfgVars, now, allocVars, ctxVars, semVars, idle, pruneVars,
                   queueVars, running, task_results, completed_at, _client_lock, credential_usage,
                   stats, w_task, w_request, w_start, w_cred, w_ctx, w_old, stopVars, cur>>

\* client.initialize() returned: the client is stored, the lock released,
\* client.process_request awaited.
GetClientInitDone(w) ==
    /\ cur = "none"
    /\ pc[w] = "gc_init"
    /\ clients' = [clients EXCEPT ![w_cred[w]] = w_ctx[w]]
    /\ _client_lock' = None
    /\ pc' = [pc EXCEPT ![w] = "driver"]
    /\ UNCHANGED <<cfgVars, now, allocVars, ctxVars, semVars, idle, pruneVars,
                   queueVars, running, task_results, completed_at, credential_usage, stats, w_task, w_request, w_start,
                   w_cred, w_ctx, w_old, stopVars, cur>>

\* client.initialize() raised: the exception leaves _process_request.
GetClientInitFailed(w) ==
    /\ cur = "none"
    /\ pc[w] = "gc_init"
    /\ _client_lock' = None
    /\ FailHolding(w, "init failed")
    /\ UNCHANGED <<cfgVars, now, _round_robin_index, ctxVars, pruneVars, queue,
                   running, clients, credential_usage>>

\* client.process_request finished.  A result with success stores a successful
\* TaskResult, any other result a failed one carrying the credential, an
\* exception goes to `except Exception`, which stores str(e): a message, or the
\* empty string for an exception raised without one; every path releases the
\* context and marks the credential free.
DriverDone(w, outcome) ==
    /\ cur = "none"
    /\ pc[w] = "driver"
    /\ release_context(w, w_cred[w])
    /\ active_tasks' = mark_free(w_cred[w])
    /\ CASE outcome = "ok" ->
              /\ task_results' = [task_results EXCEPT ![w_task[w]] =
                                     TaskResult(TRUE, None, w_cred[w], now - w_start[w])]
              /\ completed_at' = [completed_at EXCEPT ![w_task[w]] = now]
              /\ stats' = [stats EXCEPT !.total_processed = @ + 1]
         [] outcome = "fail" ->
              /\ task_results' = [task_results EXCEPT ![w_task[w]] =
                                     TaskResult(FALSE, "err", w_cred[w], now - w_start[w])]
              /\ completed_at' = [completed_at EXCEPT ![w_task[w]] = now]
              /\ stats' = [stats EXCEPT !.total_failed = @ + 1]
         [] outcome = "raise" -> StoreFailed(w, "err")
         [] OTHER -> StoreFailed(w, "")
    /\ EndIteration(w)
    /\ UNCHANGED <<cfgVars, now, _round_robin_index, ctxVars, pruneVars, queue,
                   running, clientVars>>

\* ---- BrowserManager._prune_loop ------------------------------------------------
\* More than prune_timeout passes with no coroutine running.  idle[k] stands
\* for `now - self.last_activity[k] > self.prune_timeout`, the only use the
\* program makes of last_activity; it is kept FALSE for a key without a context
\* (_create_context stamps the key anew).
TimePasses ==
    /\ cur = "none"
    /\ \E k \in Keys : contexts[k] # 0 /\ ~idle[k]
    /\ idle' = [k \in AllKeys |-> contexts[k] # 0]
    /\ UNCHANGED <<cfgVars, now, allocVars, ctxVars, semVars, pruneVars, queueVars, running,
                   task_results, completed_at, clientVars, stats, workerVars, stopVars, cur>>

\* `if now - last_active > self.prune_timeout: if self.semaphores[key]._value > 0`
PruneEligible(k) ==
    /\ idle[k]
    /\ semaphores[k] > 0

\* The keys of `for key in to_prune` from the first one still in self.contexts
\* (pop returns None for the others and the loop goes on without suspending).
RECURSIVE SkipPopped(_)
SkipPopped(keys) ==
    IF keys = <<>> THEN <<>>
    ELSE IF contexts[Head(keys)] = 0 THEN SkipPopped(Tail(keys)) ELSE keys

\* One iteration of `for key in to_prune` over keys: pop the context and
\* suspend in _close_context_safe, or go back to sleep when no key is left.
PrunePop(keys) ==
    LET left == SkipPopped(keys)
    IN  IF left = <<>>
        THEN /\ prune_pc' = "sleep"
             /\ to_prune' = <<>>
             /\ prune_closing' = <<>>
             /\ UNCHANGED <<contexts, ctx_order, idle>>
        ELSE /\ prune_pc' = "closing"
             /\ to_prune' = Tail(left)
             /\ prune_closing' = <<Head(left), contexts[Head(left)]>>
             /\ contexts' = [contexts EXCEPT ![Head(left)] = 0]
             /\ ctx_order' = RemoveKey(ctx_order, Head(left))
             /\ idle' = [idle EXCEPT ![Head(left)] = FALSE]

\* The loop wakes from sleep(60), selects the contexts to prune in the order of
\* self.contexts, and pops the first one.
PruneScan ==
    /\ cur = "none"
    /\ prune_pc = "sleep"
    /\ SelectSeq(ctx_order, PruneEligible) # <<>>
    /\ PrunePop(SelectSeq(ctx_order, PruneEligible))
    /\ UNCHANGED <<cfgVars, now, allocVars, open_contexts, semVars, queueVars, running, task_results, completed_at, clientVars,
                   stats, workerVars, stopVars, cur>>

\* context.close() of the popped context finished; the loop goes on with the
\* keys selected by the scan.
PruneCloseDone ==
    /\ cur = "none"
    /\ prune_pc = "closing"
    /\ open_contexts' = open_contexts \ {prune_closing}
    /\ PrunePop(to_prune)
    /\ UNCHANGED <<cfgVars, now, allocVars, semVars, queueVars, running, task_results, completed_at,
                   clientVars, stats, workerVars, stopVars, cur>>

\* ---- QueueManager.stop_workers -------------------------------------------------
\* running = False, then queue.join(): returns at once with no unfinished
\* task, suspends otherwise.
StopBegin ==
    /\ cur = "none"
    /\ stop_pc = "running"
    /\ running' = FALSE
    /\ IF unfinished_tasks = 0
       THEN stop_pc' = "joined" /\ cur' = "stop"
       ELSE stop_pc' = "joining" /\ cur' = "none"
    /\ UNCHANGED <<cfgVars, now, allocVars, ctxVars, semVars, idle, pruneVars,
                   queueVars, task_results, completed_at, clientVars, stats, workerVars, stop_left>>

\* join() returned: every worker is cancelled and gather() awaited.  A worker
\* suspended in queue.get(), or not started yet, gets CancelledError.
StopCancel ==
    /\ stop_pc = "joined"
    /\ cur \in {"stop", "none"}
    /\ pc' = [w \in Workers |-> IF pc[w] \in {"get", "created"} THEN "cancelled" ELSE pc[w]]
    /\ stop_pc' = "gathering"
    /\ cur' = "none"
    /\ UNCHANGED <<cfgVars, now, allocVars, ctxVars, semVars, idle, pruneVars,
                   queueVars, running, task_results, completed_at, clientVars, stats, w_task, w_request, w_start, w_cred,
                   w_ctx, w_old, stop_left>>

\* `except asyncio.CancelledError: break`.
WorkerCancelled(w) ==
    /\ cur = "none"
    /\ pc[w] = "cancelled"
    /\ pc' = [pc EXCEPT ![w] = "stopped"]
    /\ UNCHANGED <<cfgVars, now, allocVars, ctxVars, semVars, idle, pruneVars,
                   queueVars, running, task_results, completed_at, clientVars, stats, w_task, w_request, w_start, w_cred,
                   w_ctx, w_old, stopVars, cur>>

\* The keys of self.clients, in registry order.
ClientKeys == SelectSeq(credentials, LAMBDA k : clients[k] # 0)

\* gather() returned: the client cleanup loop under _client_lock; it suspends
\* in the first client.cleanup(), or clears the map and returns.
StopGathered ==
    /\ cur = "none"
    /\ stop_pc = "gathering"
    /\ \A w \in Workers : pc[w] = "stopped"
    /\ _client_lock = None
    /\ IF ClientKeys = <<>>
       THEN /\ stop_pc' = "done"
            /\ UNCHANGED <<stop_left, _client_lock>>
       ELSE /\ stop_pc' = "cleaning"
            /\ stop_left' = ClientKeys
            /\ _client_lock' = "stop"
    /\ UNCHANGED <<cfgVars, now, allocVars, ctxVars, semVars, idle, pruneVars,
                   queueVars, running, task_results, completed_at, clients, credential_usage, stats,
                   workerVars, cur>>

\* client.cleanup() returned: the next client, or clients.clear() and return.
StopCleanupDone ==
    /\ cur = "none"
    /\ stop_pc = "cleaning"
    /\ stop_left' = Tail(stop_left)
    /\ IF Tail(stop_left) = <<>>
       THEN /\ stop_pc' = "done"
            /\ clients' = [k \in AllKeys |-> 0]
            /\ _client_lock' = None
       ELSE UNCHANGED <<stop_pc, clients, _client_lock>>
    /\ UNCHANGED <<cfgVars, now, allocVars, ctxVars, semVars, idle, pruneVars,
                   queueVars, running, task_results, completed_at, credential_usage, stats,
                   workerVars, cur>>

\* client.cleanup() raised: the handler's log call reads `credential.key`, a
\* name stop_workers does not define, so NameError leaves stop_workers.
StopCleanupRaised ==
    /\ cur = "none"
    /\ stop_pc = "cleaning"
    /\ stop_pc' = "raised"
    /\ _client_lock' = None
    /\ UNCHANGED <<cfgVars, now, allocVars, ctxVars, semVars, idle, pruneVars,
                   queueVars, running, task_results, completed_at, clients, credential_usage, stats,
                   workerVars, stop_left, cur>>

\* ---- the specification -----------------------------------------------------------
WorkerStep(w) ==
    \/ LoopTop(w)
    \/ QueueGetResume(w)
    \/ ResolveStopped(w)
    \/ ResolveAdmit(w)
    \/ ResolveSaturated(w)
    \/ get_context(w)
    \/ SemaphoreResume(w)
    \/ CreateContextDone(w)
    \/ CreateContextFailed(w)
    \/ process_request_enter(w)
    \/ ClientLockResume(w)
    \/ \E raised \in BOOLEAN : RecycleCleanupDone(w, raised)
    \/ RecreateCloseDone(w)
    \/ RecreateCreateDone(w)
    \/ RecreateCreateFailed(w)
    \/ GetClientCleanupDone(w)
    \/ GetClientInitDone(w)
    \/ GetClientInitFailed(w)
    \/ \E outcome \in DriverOutcomes : DriverDone(w, outcome)
    \/ WorkerCancelled(w)

StopStep ==
    \/ StopCancel
    \/ StopGathered
    \/ StopCleanupDone
    \/ StopCleanupRaised

\* Task ids are the caller's; the model's callers number their tasks 1, 2, ...
Next ==
    \/ \E t \in 1..NumTasks, req \in Requests : FreshId(t) /\ enqueue_request(t, req)
    \/ \E w \in Workers : WorkerStep(w)
    \/ TimePasses
    \/ PruneScan
    \/ PruneCloseDone
    \/ StopBegin
    \/ StopStep

Spec == Init /\ [][Next]_vars

\* The three-task scenarios: the same program, one more task.
ScenarioNext ==
    \/ \E t \in 1..ScenarioTasks, req \in Requests : FreshId(t) /\ enqueue_request(t, req)
    \/ \E w \in Workers : WorkerStep(w)
    \/ TimePasses
    \/ PruneScan
    \/ PruneCloseDone
    \/ StopBegin
    \/ StopStep

ScenarioSpec == ScenarioInit /\ [][ScenarioNext]_vars

\* The recycling scenarios: three tasks under RecycleConfigs.
RecycleInit == (\E c \in RecycleConfigs : Configured(c)) /\ Started /\ now = 0

RecycleSpec == RecycleInit /\ [][ScenarioNext]_vars

\* ---- callers outside the contract ---------------------------------------------
\* Callers that do not keep to unique task ids or to the registry's keys, and
\* a driver whose exception has no message: NumTasks calls of enqueue_request.
CallerNext ==
    \/ \E t \in 1..NumTasks, req \in CallerRequests :
          /\ UsedOrFreshId(t)
          /\ stats.total_enqueued < NumTasks
          /\ enqueue_request(t, req)
    \/ \E w \in Workers : WorkerStep(w)
    \/ \E w \in Workers : DriverDone(w, "raise_empty")
    \/ TimePasses
    \/ PruneScan
    \/ PruneCloseDone
    \/ StopBegin
    \/ StopStep

CallerSpec == Init /\ [][CallerNext]_vars

\* ---- QueueManager.clear_completed_tasks --------------------------------------------
\* The clock advances while every coroutine is suspended.
Tick ==
    /\ cur = "none"
    /\ now < MaxTime
    /\ now' = now + 1
    /\ UNCHANGED <<cfgVars, allocVars, ctxVars, semVars, idle, pruneVars, queueVars,
                   running, task_results, clientVars, stats, workerVars, stopVars,
                   cur, completed_at>>

\* A test that takes a missing processing_time for zero.
Purgeable_NoneIsZero(result, current_time, max_age) ==
    current_time - (IF result.processing_time = NoTime THEN 0 ELSE result.processing_time)
        > max_age

\* `result.processing_time and (current_time - result.processing_time) > max_age`
\* (None and 0.0 are false).
Purgeable(result, current_time, max_age) ==
    /\ result.processing_time \notin {NoTime, 0}
    /\ current_time - result.processing_time > max_age

\* The task ids clear_completed_tasks collects in to_remove.
to_remove(max_age) ==
    {t \in DOMAIN task_results : Purgeable(task_results[t], now, max_age)}

\* clear_completed_tasks(max_age): no suspension (the result lock is free).
clear_completed_tasks(max_age) ==
    /\ cur = "none"
    /\ task_results' = [t \in DOMAIN task_results \ to_remove(max_age) |-> task_results[t]]
    /\ completed_at' = [t \in DOMAIN task_results \ to_remove(max_age) |-> completed_at[t]]
    /\ UNCHANGED <<cfgVars, allocVars, ctxVars, semVars, idle, pruneVars, queueVars,
                   running, clientVars, stats, workerVars, stopVars, cur, now>>

\* The program with its clock and the purge (called by _cleanup_loop, or by
\* anyone, with some max_age).
PurgeNext ==
    \/ \E t \in 1..NumTasks, req \in Requests : FreshId(t) /\ enqueue_request(t, req)
    \/ \E w \in Workers : WorkerStep(w)
    \/ Tick
    \/ \E max_age \in MaxAges : clear_completed_tasks(max_age)
    \/ TimePasses
    \/ PruneScan
    \/ PruneCloseDone
    \/ StopBegin
    \/ StopStep

PurgeInit == (\E c \in Configs : Configured(c)) /\ Started /\ now = ClockStart

PurgeSpec == PurgeInit /\ [][PurgeNext]_vars

\* ---- QueueManager.get_result / wait_for_result ----------------------------------
\* Python truthiness of TaskResult.error: None and "" are false.
Truthy(error) == error \notin {None, ""}

\* task_results.get(task_id), as the set of what it returns: empty for None.
get_result(t) == IF t \in DOMAIN task_results THEN {task_results[t]} ELSE {}

\* A call during which no result is stored: every poll sees the same result and
\* returns it when `result.success or result.error`; otherwise the call ends
\* at its timeout with None (the empty set).
wait_for_result(t) == {result \in get_result(t) : result.success \/ Truthy(result.error)}

\* ---- the allocator on its own ------------------------------------------------
\* A caller runs get_available_credential with any arguments and, as the worker
\* does, mark_busy on the credential it got.
AcquireCredential(mode_override, specific_key) ==
    /\ \E r \in get_available_credential(mode_override, specific_key) :
          /\ r.rr <= MaxRoundRobinIndex
          /\ _round_robin_index' = r.rr
          /\ active_tasks' = IF r.cred # None THEN mark_busy(r.cred) ELSE active_tasks
    /\ UNCHANGED <<cfgVars, now, ctxVars, semVars, idle, pruneVars, queueVars, running,
                   task_results, completed_at, clientVars, stats, workerVars, stopVars, cur>>

\* A caller that holds a credential runs mark_free on it.
ReleaseCredential(k) ==
    /\ active_tasks[k] > 0
    /\ active_tasks' = mark_free(k)
    /\ UNCHANGED <<cfgVars, now, _round_robin_index, ctxVars, semVars, idle, pruneVars,
                   queueVars, running, task_results, completed_at, clientVars, stats, workerVars,
                   stopVars, cur>>

AllocInit == (\E c \in AllocConfigs : Configured(c)) /\ Started /\ now = 0

AllocNext ==
    \/ \E m \in ModeOverrides, key \in PinKeys : AcquireCredential(m, key)
    \/ \E k \in Keys : ReleaseCredential(k)

AllocSpec == AllocInit /\ [][AllocNext]_vars

\* The fair scheduling of the event loop: a coroutine that can resume does
\* resume (every awaited call returns or raises), stop_workers goes on when it
\* can, and the prune loop's close() returns.  Callers are free to submit
\* tasks, to call stop_workers, or not to.
LiveSpec ==
    /\ Init
    /\ [][Next]_vars
    /\ \A w \in Workers : WF_vars(WorkerStep(w))
    /\ WF_vars(StopStep)
    /\ WF_vars(PruneCloseDone)

\* The recycling scenarios under the same fair scheduling.
RecycleLiveSpec ==
    /\ RecycleInit
    /\ [][ScenarioNext]_vars
    /\ \A w \in Workers : WF_vars(WorkerStep(w))
    /\ WF_vars(StopStep)
    /\ WF_vars(PruneCloseDone)

\* ---- properties -----------------------------------------------------------------
\* A terminal TaskResult: success, or failure with an error.
Terminal(t) ==
    /\ t \in DOMAIN task_results
    /\ (task_results[t].success \/ task_results[t].error # None)

\* The worker is between the entry of _process_request and its return.
InProcessRequest(w) ==
    pc[w] \in {"process", "rc_lock_wait", "gc_lock_wait", "rc_cleaning", "rc_closing",
               "rc_creating", "rc_sem_wait", "rc_get_creating", "gc_cleaning",
               "gc_init", "driver"}

\* The workers that were admitted on k and have not yet marked it free.
Admitted(k) == {w \in Workers : w_cred[w] = k}

\* C1: in every reachable state, active_tasks[c] is at most
\* max_concurrent_per_credential for every credential c.
C1_ActiveWithinCapacity ==
    \A k \in Keys : active_tasks[k] <= max_concurrent_per_credential

\* C1 witness: a credential filled to a capacity of two by two workers.
C1_Witness ==
    \E k \in Keys :
        /\ max_concurrent_per_credential = 2
        /\ active_tasks[k] = max_concurrent_per_credential
        /\ Cardinality(Admitted(k)) = 2

\* C2: for one credential at most one worker holds the semaphore, a worker is
\* inside _process_request for it only while holding the semaphore, and no two
\* driver process_request calls for it are in progress together.
C2_OneRequestPerCredential ==
    \A k \in Keys :
        /\ Cardinality(sem_holders[k]) <= 1
        /\ semaphores[k] >= 0
        /\ \A w \in Admitted(k) : InProcessRequest(w) => w \in sem_holders[k]
        /\ Cardinality({w \in Admitted(k) : pc[w] = "driver"}) <= 1

\* C2 witness: two workers admitted on one credential, one in the driver call,
\* the other waiting for the semaphore.
C2_Witness ==
    \E w1, w2 \in Workers :
        /\ w1 # w2
        /\ w_cred[w1] # None
        /\ w_cred[w1] = w_cred[w2]
        /\ pc[w1] = "driver"
        /\ pc[w2] = "sem_wait"

\* C3: at most one browser context that was launched and is not yet closed
\* exists per credential at any time.
C3_OneOpenContext ==
    \A k \in Keys : Cardinality({c \in open_contexts : c[1] = k}) <= 1

\* C4: the step in which the prune loop pops a credential's context (and starts
\* closing it) is taken only while that credential's semaphore is free.
C4_PruneOnlyFree ==
    [][(prune_closing' # prune_closing /\ prune_closing' # <<>>)
          => /\ semaphores[prune_closing'[1]] > 0
             /\ sem_holders[prune_closing'[1]] = {}]_vars

\* C5: with max_requests_per_context = 2, once recreate_context has returned for
\* the task that went over the limit, that task has not acquired the session
\* before the recreation, the session is free for it, and credential_usage of the
\* credential is 0.
C5_RecycleBeforeAcquire ==
    \A w \in Workers :
        (max_requests_per_context = 2 /\ pc[w] \in {"rc_sem_wait", "rc_get_creating"})
            => /\ w \notin sem_holders[w_cred[w]]
               /\ SemFree(w_cred[w])
               /\ credential_usage[w_cred[w]] = 0

\* C6: a worker that finds no credential for its task while running keeps the
\* task and leaves its result as it was (it waits and retries); saturation
\* never fails the task.
C6_SaturationWaits ==
    [][\A w \in Workers :
          (/\ cur = w
           /\ pc[w] = "resolve"
           /\ running
           /\ \A r \in get_available_credential(w_request[w].credential_mode,
                                                w_request[w].account_id) : r.cred = None)
              => /\ w_task'[w] = w_task[w]
                 /\ task_results'[w_task[w]] = task_results[w_task[w]]]_vars

\* C7: while the workers are running (stop_workers is never called) and every
\* awaited call returns, every accepted task eventually has a terminal result.
C7_EventuallyTerminal ==
    \/ <>(~running)
    \/ \A t \in 1..NumTasks : [](t \in DOMAIN task_results => <>Terminal(t))

\* C8: stop_workers drains the queue before the workers stop, so that it
\* returns: it is never left waiting in queue.join() with every worker gone
\* and tasks still in the queue.
C8_StopDrainsQueue ==
    (stop_pc = "joining" /\ \A w \in Workers : pc[w] = "stopped") => queue = <<>>

\* C9: the step in which a worker marks its queue item done (task_done) leaves
\* the task with a terminal TaskResult, also when shutdown has begun.
C9_TerminalBeforeDone ==
    [][\A w \in Workers : \A t \in DOMAIN task_results :
          (w_task[w] = t /\ w_task'[w] = 0) => Terminal(t)']_vars

\* C10: the admission count of a credential is the number of workers between
\* mark_busy and mark_free on it, and its semaphore is down by the workers
\* holding it: a worker that has finished a task, on any path, has given both
\* back.
C10_ReleasedOnEveryPath ==
    \A k \in AllKeys :
        /\ active_tasks[k] = Cardinality(Admitted(k))
        /\ semaphores[k] = 1 - Cardinality(sem_holders[k])
        /\ sem_holders[k] \subseteq Admitted(k)

\* C10 witness: a task has failed on an exception from get_context or from
\* _process_request, no worker is in a task, and every count is as it started.
C10_Witness ==
    /\ \E t \in DOMAIN task_results : task_results[t].error = "create failed"
    /\ \E t \in DOMAIN task_results : task_results[t].error = "init failed"
    /\ \A w \in Workers : w_cred[w] = None
    /\ \A k \in AllKeys : active_tasks[k] = 0 /\ semaphores[k] = 1

\* C11: while running is true, a step that ends a worker's handling of a task
\* (on an exception of the allocator, the pool or the driver as on success)
\* leaves the task with a terminal result and the worker at the top of its
\* loop, and no worker has left its loop.
C11_WorkerSurvives ==
    [][running' =>
          /\ \A w \in Workers : pc'[w] \notin {"stopped", "cancelled"}
          /\ \A w \in Workers : \A t \in DOMAIN task_results :
                (w_task[w] = t /\ w_task'[w] = 0)
                    => (pc'[w] = "start" /\ Terminal(t)')]_vars

\* C11 witness: task 1 failed on an exception and the same worker (the other
\* one has not run yet) is in the driver call of task 2, workers still running.
C11_Witness ==
    /\ running
    /\ 2 \in DOMAIN task_results
    /\ ~task_results[1].success
    /\ task_results[1].error \in {"create failed", "init failed", "err", "AttributeError"}
    /\ \E w \in Workers :
          /\ pc[w] = "driver"
          /\ w_task[w] = 2
          /\ \A x \in Workers \ {w} : pc[x] = "created"

\* C20: the step in which launch fails inside the worker's get_context releases
\* the credential's semaphore exactly once, decrements its admission count, and
\* stores a terminal failed result carrying the creation error for the task.
C20_CreationFailureReleases ==
    [][\A w \in Workers : \A t \in DOMAIN task_results :
          (pc[w] = "creating" /\ w_task[w] = t /\ pc'[w] = "start")
              => /\ semaphores'[w_cred[w]] = semaphores[w_cred[w]] + 1
                 /\ w \notin sem_holders'[w_cred[w]]
                 /\ active_tasks'[w_cred[w]] = active_tasks[w_cred[w]] - 1
                 /\ ~task_results'[t].success
                 /\ task_results'[t].error = "create failed"
                 /\ Terminal(t)']_vars

\* C20 witness: a task carries the creation error while another worker is
\* admitted on the same credential and holds its semaphore.
C20_Witness ==
    \E t \in DOMAIN task_results : \E w \in Workers :
        /\ task_results[t].error = "create failed"
        /\ w_cred[w] # None
        /\ w \in sem_holders[w_cred[w]]
        /\ pc[w] = "driver"

\* The credential is at or above its capacity.
AtCapacity(k) == active_tasks[k] >= max_concurrent_per_credential

\* C14: with a pinned key, get_available_credential returns that credential
\* or None, whatever the mode: the credential when it is in the registry and
\* under capacity, None otherwise, also when other credentials are idle.
C14_PinnedExact ==
    \A key \in PinKeys \ {None} : \A m \in ModeOverrides :
        \A r \in get_available_credential(m, key) :
            /\ r.cred \in {key, None}
            /\ r.cred = key <=> (key \in Keys /\ ~AtCapacity(key))

\* C14 witness: A is pinned and at capacity while B is idle, and the call
\* returns None.
C14_Witness ==
    /\ credentials = <<"A", "B">>
    /\ AtCapacity("A")
    /\ active_tasks["B"] = 0
    /\ \A r \in get_available_credential(None, "A") : r.cred = None

\* The credential the round-robin index points at.
NextInTurn == credentials[(_round_robin_index % Len(credentials)) + 1]

\* C16: in round_robin mode with credentials [A, B] of capacity 1, a call made
\* while A is busy and B is free returns B; a call made while both are free
\* returns the credential in turn and the call after it the other one; and a
\* round-robin call that returned a credential leaves the turn to the other,
\* whatever came before.
C16_RoundRobinAlternates ==
    [][(credentials = <<"A", "B">> /\ max_concurrent_per_credential = 1) =>
          /\ (active_tasks["A"] = 1 /\ active_tasks["B"] = 0)
                => \A r \in get_available_credential("round_robin", None) : r.cred = "B"
          /\ (active_tasks["A"] = 0 /\ active_tasks["B"] = 0)
                => \A r \in get_available_credential("round_robin", None) :
                      /\ r.cred = NextInTurn
                      /\ RoundRobinScan(r.rr, Len(credentials)).cred \in Keys \ {r.cred}
          /\ \A k \in Keys :
                (/\ _round_robin_index' # _round_robin_index
                 /\ active_tasks'[k] = active_tasks[k] + 1)
                    => NextInTurn' \in Keys \ {k}]_vars

\* C16 witness: round_robin mode, A busy and B free, the index pointing at A
\* after earlier calls.
C16_Witness ==
    /\ credentials = <<"A", "B">>
    /\ max_concurrent_per_credential = 1
    /\ mode = "round_robin"
    /\ active_tasks["A"] = 1
    /\ active_tasks["B"] = 0
    /\ _round_robin_index > 0
    /\ NextInTurn = "A"

\* C17: in default mode without a pinned key and with a valid
\* default_credential_index, get_available_credential returns the credential
\* at that index when it is under capacity and None when it is at capacity.
C17_DefaultStrict ==
    default_credential_index < Len(credentials) =>
        \A r \in get_available_credential("default", None) :
            r.cred = IF AtCapacity(credentials[default_credential_index + 1])
                     THEN None
                     ELSE credentials[default_credential_index + 1]

\* C17 witness: the default credential is B (index 1) and at capacity, A is
\* free, and the call of the configured default mode returns None.
C17_Witness ==
    /\ credentials = <<"A", "B">>
    /\ mode = "default"
    /\ default_credential_index = 1
    /\ AtCapacity("B")
    /\ active_tasks["A"] = 0
    /\ \A r \in get_available_credential(None, None) : r.cred = None

\* C18: in least_busy mode without a pinned key, the credential returned is
\* under capacity and its active_tasks count is the minimum among the
\* credentials under capacity; with A(active=0) and B(active=1) of capacity 2
\* the call returns A.
C18_LeastBusyMinimum ==
    \A r \in get_available_credential("least_busy", None) :
        /\ r.cred # None =>
              /\ r.cred \in Keys
              /\ ~AtCapacity(r.cred)
              /\ \A k \in Keys : ~AtCapacity(k) => active_tasks[r.cred] <= active_tasks[k]
        /\ (/\ credentials = <<"A", "B">>
            /\ max_concurrent_per_credential = 2
            /\ active_tasks["A"] = 0
            /\ active_tasks["B"] = 1) => r.cred = "A"

\* C18 witness: least_busy mode, capacity 2, A with no task and B with one.
C18_Witness ==
    /\ credentials = <<"A", "B">>
    /\ mode = "least_busy"
    /\ max_concurrent_per_credential = 2
    /\ active_tasks["A"] = 0
    /\ active_tasks["B"] = 1

\* C19: for every mode and pin, get_available_credential never returns a
\* credential at or above capacity; in random, round_robin and least_busy mode
\* without a pin it returns None exactly when every credential is at capacity.
C19_OnlyUnderCapacity ==
    \A m \in ModeOverrides : \A key \in PinKeys :
        \A r \in get_available_credential(m, key) :
            /\ r.cred # None => (r.cred \in Keys /\ ~AtCapacity(r.cred))
            /\ (key = None /\ (IF m # None THEN m ELSE mode)
                                  \in {"random", "round_robin", "least_busy"})
                  => (r.cred = None <=> \A k \in Keys : AtCapacity(k))

\* C19 witness: two credentials of capacity 1, both busy, and a round_robin
\* call returns None.
C19_Witness ==
    /\ credentials = <<"A", "B">>
    /\ max_concurrent_per_credential = 1
    /\ \A k \in Keys : AtCapacity(k)
    /\ \A r \in get_available_credential("round_robin", None) : r.cred = None

\* C12: once a task id has a terminal TaskResult, no step (a worker's write, an
\* enqueue_request call with any id, the same id included) changes it.
C12_TerminalResultKept ==
    [][\A t \in DOMAIN task_results :
          Terminal(t) => task_results'[t] = task_results[t]]_vars

\* C13: for a task with a terminal result, successful or failed with any error
\* message (the empty one included), get_result returns that result and
\* wait_for_result returns it without running into its timeout.
C13_TerminalResultReturned ==
    \A t \in DOMAIN task_results :
        Terminal(t) => /\ get_result(t) = {task_results[t]}
                       /\ wait_for_result(t) = {task_results[t]}

\* C15: a request pinned to a key outside the registry is rejected at
\* submission: it is never in the queue, never counted in total_enqueued, never
\* held by a worker.
C15_UnknownPinRejected ==
    /\ \A i \in DOMAIN queue : queue[i][2].account_id \in Keys \cup {None}
    /\ \A w \in Workers : w_request[w].account_id \in Keys \cup {None}

\* C21: once stop_workers has begun (running is false), a call of
\* enqueue_request is rejected: no step adds an item to the queue or a
\* placeholder to task_results.
C21_EnqueueAfterStopRejected ==
    [][~running => /\ Len(queue') <= Len(queue)
                   /\ DOMAIN task_results' = DOMAIN task_results]_vars

\* The tasks whose result has been removed from task_results.
Purged == (1..stats.total_enqueued) \ DOMAIN task_results

\* C22: whenever clear_completed_tasks(max_age) can run, the terminal results
\* it removes are those of tasks that completed more than max_age ago; a
\* result that completed max_age ago or less is not removed.
C22_PurgeOnlyOld ==
    cur = "none" =>
        \A max_age \in MaxAges : \A t \in to_remove(max_age) :
            now - completed_at[t] > max_age

\* C23: no step removes the result of a task that has no terminal result (the
\* placeholder of a queued or running task), whatever the clock reads and
\* whatever max_age is.
C23_PlaceholderKept ==
    [][\A t \in DOMAIN task_results : ~Terminal(t) => t \in DOMAIN task_results']_vars

\* C23 witness: task 1's result has been purged while task 2 still has its
\* placeholder, at a clock reading above every max_age.
C23_Witness ==
    /\ 1 \in Purged
    /\ 2 \in DOMAIN task_results
    /\ ~Terminal(2)
    /\ \A max_age \in MaxAges : now > max_age

\* C24: a credential's semaphore has max_concurrent_per_credential slots, so a
\* worker the allocator admitted on the credential never waits in get_context
\* behind another admitted worker.
C24_AdmittedNeverWaits ==
    \A k \in Keys : \A w \in Admitted(k) :
        pc[w] = "sem_wait" => Cardinality(sem_holders[k]) >= max_concurrent_per_credential

\* C25: recreate_context of a credential never runs while the credential's
\* semaphore is held, nor while the prune loop is closing that credential's
\* context.
C25_RecreateWhileFree ==
    \A w \in Workers :
        pc[w] \in {"rc_closing", "rc_creating"}
            => /\ sem_holders[w_cred[w]] = {}
               /\ semaphores[w_cred[w]] > 0
               /\ ~(prune_closing # <<>> /\ prune_closing[1] = w_cred[w])

\* C26: a step in which context creation fails inside recreate_context leaves
\* the credential without a context in the pool, and a get_context that
\* acquires the semaphore of a credential without a context attempts creation.
C26_RecreateFailureLeavesAbsent ==
    [][\A w \in Workers : \A k \in Keys :
          /\ (pc[w] = "rc_creating" /\ w_cred[w] = k /\ pc'[w] = "start")
                => /\ contexts'[k] = 0
                   /\ \A i \in DOMAIN ctx_order' : ctx_order'[i] # k
          /\ (/\ pc[w] \in {"get_context", "sem_wait"}
              /\ pc'[w] \notin {"get_context", "sem_wait"}
              /\ w_cred[w] = k
              /\ contexts[k] = 0)
                => pc'[w] = "creating"]_vars

\* C26 witness: task 1 succeeded on a credential, task 2 went over the limit
\* on it and failed creating the context in recreate_context, and the worker
\* of task 3 is creating the context in get_context.
C26_Witness ==
    \E w \in Workers : \E k \in Keys :
        /\ max_requests_per_context = 1
        /\ DOMAIN task_results = 1..3
        /\ task_results[1].success
        /\ task_results[2].error = "create failed"
        /\ credential_usage[k] = 2
        /\ \A j \in Keys \ {k} : credential_usage[j] = 0
        /\ w_task[w] = 3
        /\ w_cred[w] = k
        /\ pc[w] = "creating"

\* C27: a worker acquires a credential's semaphore only after mark_busy has
\* counted it on that credential, and mark_free uncounts it only once it has
\* released the semaphore: every holder of a semaphore is counted in the
\* credential's active_tasks.
C27_TicketAroundSession ==
    [][\A w \in Workers : \A k \in Keys :
          /\ (w \notin sem_holders[k] /\ w \in sem_holders'[k])
                => /\ w_cred[w] = k
                   /\ active_tasks[k] >= 1
                   /\ active_tasks'[k] = active_tasks[k]
          /\ (w_cred[w] = k /\ w_cred'[w] # k)
                => /\ w \notin sem_holders'[k]
                   /\ active_tasks'[k] = active_tasks[k] - 1
          /\ w \in sem_holders[k]
                => /\ w_cred[w] = k
                   /\ active_tasks[k] >= Cardinality(sem_holders[k])]_vars

\* C27 witness: a task has gone through release_context and mark_free with
\* success, and a worker holds a credential's semaphore in the driver call
\* with the credential's count at one.
C27_Witness ==
    \E w \in Workers : \E k \in Keys :
        /\ \E t \in DOMAIN task_results : task_results[t].success
        /\ w \in sem_holders[k]
        /\ pc[w] = "driver"
        /\ active_tasks[k] = 1

\* The worker is in the recycling block of _process_request.
Recycling(w) ==
    pc[w] \in {"rc_lock_wait", "rc_cleaning", "rc_closing", "rc_creating",
               "rc_sem_wait", "rc_get_creating"}

\* C28: a worker whose task went over max_requests_per_context, and which
\* holds the credential's semaphore in the recycling block, eventually leaves
\* the block and ends the task with the semaphore and the admission count
\* given back.
C28_RecyclingCompletes ==
    \A w \in Workers :
        Recycling(w) ~> (w_cred[w] = None /\ \A k \in Keys : w \notin sem_holders[k])

\* C29: a worker with a task on credential B that waits for the client lock
\* while a worker recycles the context of credential A under that lock
\* eventually gets the lock and completes its task.
C29_OtherCredentialCompletes ==
    \A w \in Workers :
        (w_cred[w] = "B" /\ pc[w] = "gc_lock_wait"
            /\ \E x \in Workers : w_cred[x] = "A" /\ Recycling(x) /\ _client_lock = x)
          ~> (w_cred[w] = None)

\* C30: the step in which the prune loop removes a credential's context from
\* the pool is taken only while more than prune_timeout has passed since the
\* credential's last get_context or release_context; a context used after the
\* scan selected it is not removed by that pass.
C30_PruneOnlyIdle ==
    [][(prune_closing' # prune_closing /\ prune_closing' # <<>>)
          => idle[prune_closing'[1]]]_vars

\* C31: a round_robin call of get_available_credential that returns a
\* credential advances the round-robin index by exactly one, also when it
\* skipped credentials at capacity on the way.
C31_RoundRobinAdvancesByOne ==
    \A r \in get_available_credential("round_robin", None) :
        r.cred # None => r.rr = _round_robin_index + 1

\* The credentials under capacity whose active_tasks count is the least.
LeastBusyKeys ==
    {k \in AvailableKeys : \A j \in AvailableKeys : active_tasks[k] <= active_tasks[j]}

\* C32: in least_busy mode every credential under capacity that has the
\* minimum active_tasks count is a possible result of
\* get_available_credential.
C32_LeastBusyTiesAnyOf ==
    \A k \in LeastBusyKeys :
        \E r \in get_available_credential("least_busy", None) : r.cred = k

\* C34: get_available_credential changes the round-robin index only in
\* round_robin mode without a pin and never when it returns None, and a step
\* changes active_tasks only as mark_busy or mark_free of one credential does.
C34_AllocatorFrame ==
    [][/\ \A m \in ModeOverrides : \A key \in PinKeys :
             \A r \in get_available_credential(m, key) :
                 r.rr # _round_robin_index
                     => /\ key = None
                        /\ (IF m # None THEN m ELSE mode) = "round_robin"
                        /\ r.cred # None
       /\ active_tasks' # active_tasks
             => \E k \in Keys : active_tasks' \in {mark_busy(k), mark_free(k)}]_vars

\* C34 witness: round_robin mode after earlier calls that advanced the index,
\* every credential at capacity: the call without a pin and the call pinned to
\* A both return None and leave the index.
C34_Witness ==
    /\ mode = "round_robin"
    /\ _round_robin_index > 0
    /\ \A k \in Keys : AtCapacity(k)
    /\ get_available_credential(None, None) = {[cred |-> None, rr |-> _round_robin_index]}
    /\ get_available_credential(None, "A") = {[cred |-> None, rr |-> _round_robin_index]}

\* C33: no credential has a context at construction; a context appears for a
\* credential only in a get_context or recreate_context of a worker admitted to
\* it; a get_context that returns hands out the stored context, and leaves a
\* context that was already stored in place; a stored context is replaced only
\* by being removed first, by the prune loop or by recreate_context.
C33_LazyContextSameInstance ==
    /\ \A k \in Keys : contexts[k] = 0
    /\ [][\A k \in Keys :
            /\ (contexts[k] = 0 /\ contexts'[k] # 0)
                  => \E w \in Admitted(k) :
                        /\ pc[w] \in {"creating", "rc_get_creating", "rc_creating"}
                        /\ pc'[w] # pc[w]
            /\ \A w \in Admitted(k) :
                  \/ /\ pc[w] \in {"get_context", "sem_wait", "creating"}
                     /\ pc'[w] = "process"
                  \/ /\ pc[w] \in {"rc_creating", "rc_sem_wait", "rc_get_creating"}
                     /\ pc'[w] \in {"gc_cleaning", "gc_init", "driver"}
                  => /\ contexts'[k] # 0
                     /\ w_ctx'[w] = contexts'[k]
                     /\ pc[w] \in {"get_context", "sem_wait", "rc_sem_wait"}
                           => contexts'[k] = contexts[k]
            /\ (contexts[k] # 0 /\ contexts'[k] # contexts[k])
                  => /\ contexts'[k] = 0
                     /\ \/ prune_pc' = "closing" /\ prune_closing' = <<k, contexts[k]>>
                        \/ \E w \in Admitted(k) : pc[w] = "rc_closing" /\ pc'[w] = "rc_creating"
       ]_vars

\* C33 witness: a credential that has served a task before and was not recycled
\* since; a worker's get_context on it has just returned the stored context.
C33_Witness ==
    \E w \in Workers :
        /\ pc[w] = "process"
        /\ w_cred[w] # None
        /\ credential_usage[w_cred[w]] >= 1
        /\ stats.total_processed >= 1
        /\ w_ctx[w] # 0
        /\ w_ctx[w] = contexts[w_cred[w]]

\* C38: the value of every credential's semaphore is 0 or 1 in every reachable
\* state, and a step that raises it raises it by one and is taken by a worker
\* that had acquired it and holds it no longer afterwards.
C38_SemaphoreBinary ==
    /\ [](\A k \in AllKeys : semaphores[k] \in {0, 1})
    /\ [][\A k \in AllKeys :
            semaphores'[k] > semaphores[k]
               => /\ semaphores'[k] = semaphores[k] + 1
                  /\ \E w \in sem_holders[k] : w \notin sem_holders'[k]]_vars

\* C38 witness: one task failed in get_context (the launch raised), another on
\* an exception of the driver, after each of them had acquired the semaphore;
\* every semaphore is back at 1 and no worker holds one.
C38_Witness ==
    /\ \E t \in DOMAIN task_results : task_results[t].error = "create failed"
    /\ \E t \in DOMAIN task_results :
          /\ task_results[t].error \in {"err", ""}
          /\ task_results[t].credential_key = None
    /\ \A k \in Keys : semaphores[k] = 1 /\ sem_holders[k] = {}

\* C35: while a worker is in client.process_request for a credential, the
\* credential's client is bound to the context stored in the pool for that
\* credential, and that context has not been closed.
C35_DriverOnPoolContext ==
    \A w \in Workers :
        pc[w] = "driver"
            => /\ clients[w_cred[w]] # 0
               /\ clients[w_cred[w]] = contexts[w_cred[w]]
               /\ <<w_cred[w], clients[w_cred[w]]>> \in open_contexts

\* C36: total_processed + total_failed never exceeds total_enqueued, and with
\* the queue empty and every worker idle (not started, waiting in queue.get())
\* or out of its loop, every enqueued task has been counted in one of the two.
C36_StatsAccountForEveryTask ==
    /\ stats.total_processed + stats.total_failed <= stats.total_enqueued
    /\ (/\ queue = <<>>
        /\ \A w \in Workers : pc[w] \in {"created", "get", "cancelled", "stopped"})
          => stats.total_processed + stats.total_failed = stats.total_enqueued

\* C37: an exception of a client's cleanup() never leaves stop_workers: the
\* call does not end on an exception, and once it has returned no client is
\* left in the client map.
C37_StopContainsCleanupError ==
    /\ stop_pc # "raised"
    /\ stop_pc = "done" => \A k \in AllKeys : clients[k] = 0


====
